---- MODULE Spec2Model ----
(***************************************************************************)
(* Plagiarism-similarity core of the ClassSync server:                     *)
(*   server/src/utils/plagiarism.ts          (normalise, hash, vectorise,  *)
(*                                            cosine, report builder)      *)
(*   server/src/controllers/submissionController.ts (submit / update)      *)
(*                                                                         *)
(* Texts are sequences of one-character strings.  Scores are kept exactly: *)
(* a raw score is a reduced fraction [n, d] standing for sqrt(n/d), and a  *)
(* stored (toFixed(4)) score is an integer number of ten-thousandths.      *)
(***************************************************************************)
EXTENDS Integers, Sequences, FiniteSets, TLC

VARIABLES
    submissions,   \* the Submission collection; a document's _id is its index
    notifications, \* the Notification collection, in order of creation
    assignment,    \* the one stored Assignment: isActive, createdBy
    overdue,       \* new Date() > assignment.dueDate
    last,          \* the request handled last and the response it got
    opCount,       \* requests handled so far
    argText,      \* buildSimilarityReport: normalizedText argument
    argHash,      \* buildSimilarityReport: contentHash argument
    argPeers,     \* buildSimilarityReport: peers argument (array of records)
    ret,          \* buildSimilarityReport: outcome of the call
    rpc,          \* "ready" before the call, "returned" after it
    inflight,     \* the requests being handled concurrently, by request number
    callArgs,     \* a bare call of normalizeText or cosineSimilarity: arguments
    callRet,      \* the value that call returned
    callPc        \* "ready" before that call, "returned" after it

reportVars == <<argText, argHash, argPeers, ret, rpc>>
storeVars == <<submissions, notifications, assignment, overdue, last, opCount>>
callVars == <<callArgs, callRet, callPc>>
vars == <<submissions, notifications, assignment, overdue, last, opCount,
          argText, argHash, argPeers, ret, rpc, inflight, callArgs, callRet, callPc>>

(***************************************************************************)
(* Bounds of the model.                                                    *)
(***************************************************************************)
MaxPeers == 2     \* longest peer list handed to buildSimilarityReport
MaxStudents == 2  \* students sending requests
MaxOps == 3       \* requests handled in one behaviour
MaxLen == 4       \* longest raw text handed to normalizeText
MaxMagnitude == 16 \* largest sum of squared counts whose square root is tabulated
MaxRequests == 2  \* submit requests in flight at the same time
MaxFiles == 2     \* longest file list handed to extractSubmissionText
MaxRepeat == 142  \* most repetitions of one word in a long text

(***************************************************************************)
(* Optional values (string | undefined).                                   *)
(***************************************************************************)
None == [some |-> FALSE, val |-> <<>>]
Some(v) == [some |-> TRUE, val |-> v]

\* JavaScript truthiness of a string | undefined: undefined and "" are falsy.
Truthy(o) == o.some /\ o.val # <<>>

(***************************************************************************)
(* plagiarism.ts: CATEGORY_THRESHOLDS and bucketScore, in ten-thousandths. *)
(***************************************************************************)
Scale == 10000

ThresholdLow == 4000
ThresholdMedium == 6000
ThresholdHigh == 8000

\* every threshold compared with > instead of >=
bucketScoreExclusive(score) ==
    IF score > ThresholdHigh THEN "high"
    ELSE IF score > ThresholdMedium THEN "medium"
    ELSE IF score > ThresholdLow THEN "low"
    ELSE "none"

bucketScore(score) ==
    IF score >= ThresholdHigh THEN "high"
    ELSE IF score >= ThresholdMedium THEN "medium"
    ELSE IF score >= ThresholdLow THEN "low"
    ELSE "none"

(***************************************************************************)
(* plagiarism.ts: normalizeText.  A character is a one-character string.   *)
(***************************************************************************)
UpperCase == <<"A", "B", "C", "D", "E", "F", "G", "H", "I", "J", "K", "L", "M",
               "N", "O", "P", "Q", "R", "S", "T", "U", "V", "W", "X", "Y", "Z">>
LowerCase == <<"a", "b", "c", "d", "e", "f", "g", "h", "i", "j", "k", "l", "m",
               "n", "o", "p", "q", "r", "s", "t", "u", "v", "w", "x", "y", "z">>
Digits == {"0", "1", "2", "3", "4", "5", "6", "7", "8", "9"}

\* the characters matched by \s that the model uses
WhiteSpace == {" ", "\t", "\n", "\r"}

\* [a-z0-9]
WordChars == Digits \cup {LowerCase[i] : i \in DOMAIN LowerCase}

IsWord(c) == c \in WordChars

\* the lower-case letter of every upper-case letter
LowerOf ==
    [c \in {UpperCase[i] : i \in DOMAIN UpperCase} |->
        LowerCase[CHOOSE i \in DOMAIN UpperCase : UpperCase[i] = c]]

\* String.prototype.toLowerCase, one character
LowerChar(c) == IF c \in DOMAIN LowerOf THEN LowerOf[c] ELSE c

toLowerCase(s) == [i \in DOMAIN s |-> LowerChar(s[i])]

\* [^a-z0-9\s]
IsOther(c) == ~IsWord(c) /\ c \notin WhiteSpace

RECURSIVE ReplaceOtherRuns(_, _)
\* .replace(/[^a-z0-9\s]+/g, ' '); inRun: the previous character was matched
ReplaceOtherRuns(s, inRun) ==
    IF s = <<>> THEN <<>>
    ELSE IF IsOther(Head(s))
    THEN (IF inRun THEN <<>> ELSE <<" ">>) \o ReplaceOtherRuns(Tail(s), TRUE)
    ELSE <<Head(s)>> \o ReplaceOtherRuns(Tail(s), FALSE)

RECURSIVE ReplaceSpaceRuns(_, _)
\* .replace(/\s+/g, ' ')
ReplaceSpaceRuns(s, inRun) ==
    IF s = <<>> THEN <<>>
    ELSE IF Head(s) \in WhiteSpace
    THEN (IF inRun THEN <<>> ELSE <<" ">>) \o ReplaceSpaceRuns(Tail(s), TRUE)
    ELSE <<Head(s)>> \o ReplaceSpaceRuns(Tail(s), FALSE)

RECURSIVE TrimStart(_)
TrimStart(s) ==
    IF s # <<>> /\ Head(s) \in WhiteSpace THEN TrimStart(Tail(s)) ELSE s

RECURSIVE TrimEnd(_)
TrimEnd(s) ==
    IF s # <<>> /\ s[Len(s)] \in WhiteSpace THEN TrimEnd(SubSeq(s, 1, Len(s) - 1)) ELSE s

\* String.prototype.trim
trim(s) == TrimEnd(TrimStart(s))

\* white space collapsed before the other characters are replaced
normalizeTextCollapsesFirst(input) ==
    IF ~Truthy(input) THEN None
    ELSE LET normalized ==
                 trim(ReplaceOtherRuns(ReplaceSpaceRuns(toLowerCase(input.val), FALSE), FALSE))
         IN IF Len(normalized) > 0 THEN Some(normalized) ELSE None

\* the text left in the case it came in
normalizeTextKeepsCase(input) ==
    IF ~Truthy(input) THEN None
    ELSE LET normalized ==
                 trim(ReplaceSpaceRuns(ReplaceOtherRuns(input.val, FALSE), FALSE))
         IN IF Len(normalized) > 0 THEN Some(normalized) ELSE None

\* the empty result handed back as a string
normalizeTextKeepsEmpty(input) ==
    IF ~Truthy(input) THEN None
    ELSE LET normalized ==
                 trim(ReplaceSpaceRuns(ReplaceOtherRuns(toLowerCase(input.val), FALSE), FALSE))
         IN Some(normalized)

normalizeText(input) ==
    IF ~Truthy(input) THEN None
    ELSE LET normalized ==
                 trim(ReplaceSpaceRuns(ReplaceOtherRuns(toLowerCase(input.val), FALSE), FALSE))
         IN IF Len(normalized) > 0 THEN Some(normalized) ELSE None

(***************************************************************************)
(* plagiarism.ts: buildVector.  split(' ') keeps empty pieces, the loop    *)
(* skips them.                                                             *)
(***************************************************************************)
\* where the pieces of s.split(' ') begin: at 1 and behind every space
PieceStarts(s) == {1} \cup {i + 1 : i \in {j \in DOMAIN s : s[j] = " "}}

\* the piece beginning at i: the characters up to the next space or the end
PieceAt(s, i) ==
    LET stop == CHOOSE j \in i..(Len(s) + 1) :
                    /\ j = Len(s) + 1 \/ s[j] = " "
                    /\ \A k \in i..(j - 1) : s[k] # " "
    IN SubSeq(s, i, stop - 1)

\* the pieces of s.split(' '), each under the position where it begins
SplitOnSpace(s) == [i \in PieceStarts(s) |-> PieceAt(s, i)]

CountOf(tok, pieces) == Cardinality({i \in DOMAIN pieces : pieces[i] = tok})

buildVector(normalized) ==
    IF ~Truthy(normalized) THEN <<>>
    ELSE LET pieces == SplitOnSpace(normalized.val)
             toks == {pieces[i] : i \in DOMAIN pieces} \ {<<>>}
         IN [t \in toks |-> CountOf(t, pieces)]

(***************************************************************************)
(* IEEE-754 double arithmetic of Math.sqrt(magnitudeA) * Math.sqrt(        *)
(* magnitudeB).  A number is held exactly in Width limbs of base Limb,     *)
(* least significant first.  Math.sqrt is correctly rounded, so the        *)
(* 53-bit significand of sqrt(m) is the integer nearest to                 *)
(* sqrt(m * 4^(52 - e)) with 4^e <= m < 4^(e + 1); the product of two      *)
(* significands is rounded to 53 bits, ties to even.                       *)
(***************************************************************************)
Limb == 16384
LimbBits == 14
Width == 8

\* the limbs of a number below 2^31
BigOf(n) ==
    [i \in 1..Width |->
        IF i = 1 THEN n % Limb
        ELSE IF i = 2 THEN (n \div Limb) % Limb
        ELSE IF i = 3 THEN (n \div Limb) \div Limb
        ELSE 0] \o <<>>

RECURSIVE TwoTo(_)
TwoTo(k) == IF k = 0 THEN 1 ELSE 2 * TwoTo(k - 1)

\* 2^k
BigPow2(k) ==
    [i \in 1..Width |-> IF i = (k \div LimbBits) + 1 THEN TwoTo(k % LimbBits) ELSE 0] \o <<>>

\* the carry into limb i of a + b: some lower limb overflows and every limb
\* between passes the carry on
CarryInto(a, b, i) ==
    IF \E j \in 1..(i - 1) :
            /\ a[j] + b[j] >= Limb
            /\ \A k \in (j + 1)..(i - 1) : a[k] + b[k] = Limb - 1
    THEN 1 ELSE 0

BigAdd(a, b) == [i \in 1..Width |-> (a[i] + b[i] + CarryInto(a, b, i)) % Limb] \o <<>>

\* limb i of a times the limb of b that meets it in column k
Term(a, b, i, k) == IF k + 1 - i \in 1..Width THEN a[i] * b[k + 1 - i] ELSE 0

\* column k of the long multiplication of a, a number of at most four
\* limbs, by b
Column(a, b, k) ==
    Term(a, b, 1, k) + Term(a, b, 2, k) + Term(a, b, 3, k) + Term(a, b, 4, k)

\* the number whose columns are given, each below 2^30 and spread over
\* three limbs
Spread(columns) ==
    BigAdd(BigAdd([k \in 1..Width |-> columns[k] % Limb] \o <<>>,
                  [k \in 1..Width |-> IF k > 1 THEN (columns[k - 1] \div Limb) % Limb ELSE 0] \o <<>>),
           [k \in 1..Width |-> IF k > 2 THEN (columns[k - 2] \div Limb) \div Limb ELSE 0] \o <<>>)

\* a * b for a below Limb^4
BigMul(a, b) == Spread([k \in 1..Width |-> Column(a, b, k)] \o <<>>)

BigLess(a, b) ==
    \E i \in 1..Width : a[i] < b[i] /\ \A j \in (i + 1)..Width : a[j] = b[j]

RECURSIVE Exponent(_)
\* e with 4^e <= m < 4^(e + 1): sqrt(m) lies in [2^e, 2^(e + 1))
Exponent(m) == IF m < 4 THEN 0 ELSE 1 + Exponent(m \div 4)

RECURSIVE SignificandFrom(_, _, _, _)
\* the integer nearest to sqrt(n), built bit by bit from bit down to
\* lowest: the largest c with c * c - c < n
SignificandFrom(c, bit, lowest, n) ==
    IF bit < lowest THEN c
    ELSE LET next == [c EXCEPT ![(bit \div LimbBits) + 1] = @ + TwoTo(bit % LimbBits)]
         IN IF BigLess(BigMul(next, next), BigAdd(n, next))
            THEN SignificandFrom(next, bit - 1, lowest, n)
            ELSE SignificandFrom(c, bit - 1, lowest, n)

\* the 52 bits under the leading one, thirteen at a time
SignificandOf(n) ==
    SignificandFrom(
        SignificandFrom(
            SignificandFrom(
                SignificandFrom(BigPow2(52), 51, 39, n),
                38, 26, n),
            25, 13, n),
        12, 0, n)

\* the significand of the double Math.sqrt(m), an integer in [2^52, 2^53)
SqrtSignificand(m) == SignificandOf(BigMul(BigOf(m), BigPow2(104 - 2 * Exponent(m))))

SqrtTable == [m \in 1..MaxMagnitude |-> SqrtSignificand(m)]

MathSqrt(m) == SqrtTable[m]

Doubled(a) == BigAdd(a, a)

\* twice the product of the two significands lies more than half a unit in
\* the last place (unit is twice that half) above twice the integer
RoundsAbove(twice, exact, unit) == BigLess(BigAdd(exact, unit), twice)

\* the unit in the last place of a product of two significands, doubled
UnitOf(twice) == IF BigLess(twice, BigPow2(106)) THEN BigPow2(52) ELSE BigPow2(53)

ProductAbove(twice, exact) == RoundsAbove(twice, exact, UnitOf(twice))

\* the double denom = Math.sqrt(magnitudeA) * Math.sqrt(magnitudeB) is
\* greater than the integer dot
DenomExceeds(magnitudeA, magnitudeB, dot) ==
    ProductAbove(Doubled(BigMul(MathSqrt(magnitudeA), MathSqrt(magnitudeB))),
                 BigMul(BigOf(dot), BigPow2(105 - Exponent(magnitudeA) - Exponent(magnitudeB))))

\* the comparison for every pair of tabulated magnitudes whose product is
\* the square of an integer dot
DenomTable ==
    [magnitudeA \in 1..MaxMagnitude, magnitudeB \in 1..MaxMagnitude |->
        \E dot \in 1..MaxMagnitude :
            /\ dot * dot = magnitudeA * magnitudeB
            /\ DenomExceeds(magnitudeA, magnitudeB, dot)]

\* asked where dot * dot = magnitudeA * magnitudeB
DenomAboveDot(magnitudeA, magnitudeB) == DenomTable[magnitudeA, magnitudeB]

(***************************************************************************)
(* plagiarism.ts: cosineSimilarity.  The counts and their sums of products *)
(* are small integers, exact in a double.  A score [n, d, below] stands    *)
(* for the double computed for the real number sqrt(n/d).  Where that real *)
(* number is 1 the double is worked out exactly: it is 1, or (below) one   *)
(* of the two doubles next under 1 when denom came out above dot.  A score *)
(* under 1 is kept as the real number; the double lies within a few units  *)
(* in the last place of it.                                                *)
(***************************************************************************)
RECURSIVE SumOver(_, _)
SumOver(S, f) ==
    IF S = {} THEN 0
    ELSE LET x == CHOOSE y \in S : TRUE IN f[x] + SumOver(S \ {x}, f)

RECURSIVE Gcd(_, _)
Gcd(a, b) == IF b = 0 THEN a ELSE Gcd(b, a % b)

\* the real number sqrt(n/d), as a reduced fraction under the root
Root(n, d) == LET g == Gcd(n, d) IN [n |-> n \div g, d |-> d \div g, below |-> FALSE]

ScoreZero == [n |-> 0, d |-> 1, below |-> FALSE]
ScoreOne == [n |-> 1, d |-> 1, below |-> FALSE]

\* 0.9999999999999998 or 0.9999999999999999
ScoreBelowOne == [n |-> 1, d |-> 1, below |-> TRUE]

Positive(s) == s.n > 0

\* the dot product divided by the first vector's own squared length
cosineSimilarityOwnMagnitude(a, b) ==
    IF DOMAIN a = {} \/ DOMAIN b = {} THEN ScoreZero
    ELSE LET magnitudeA == SumOver(DOMAIN a, [t \in DOMAIN a |-> a[t] * a[t]])
             smaller == IF Cardinality(DOMAIN a) < Cardinality(DOMAIN b) THEN a ELSE b
             larger == IF Cardinality(DOMAIN a) < Cardinality(DOMAIN b) THEN b ELSE a
             shared == {t \in DOMAIN smaller : t \in DOMAIN larger}
             dot == SumOver(shared, [t \in shared |-> smaller[t] * larger[t]])
         IN IF dot * dot >= magnitudeA * magnitudeA THEN ScoreOne
            ELSE Root(dot * dot, magnitudeA * magnitudeA)

\* a token missing from the larger vector counted with weight 1
cosineSimilarityCountsMissing(a, b) ==
    IF DOMAIN a = {} \/ DOMAIN b = {} THEN ScoreZero
    ELSE LET magnitudeA == SumOver(DOMAIN a, [t \in DOMAIN a |-> a[t] * a[t]])
             magnitudeB == SumOver(DOMAIN b, [t \in DOMAIN b |-> b[t] * b[t]])
             smaller == IF Cardinality(DOMAIN a) < Cardinality(DOMAIN b) THEN a ELSE b
             larger == IF Cardinality(DOMAIN a) < Cardinality(DOMAIN b) THEN b ELSE a
             dot == SumOver(DOMAIN smaller,
                        [t \in DOMAIN smaller |->
                            smaller[t] * (IF t \in DOMAIN larger THEN larger[t] ELSE 1)])
         IN IF dot * dot >= magnitudeA * magnitudeB THEN ScoreOne
            ELSE Root(dot * dot, magnitudeA * magnitudeB)

\* every token weighted 1, however often it occurs
cosineSimilarityBinary(a, b) ==
    IF DOMAIN a = {} \/ DOMAIN b = {} THEN ScoreZero
    ELSE LET magnitudeA == Cardinality(DOMAIN a)
             magnitudeB == Cardinality(DOMAIN b)
             dot == Cardinality(DOMAIN a \cap DOMAIN b)
         IN IF dot * dot >= magnitudeA * magnitudeB THEN ScoreOne
            ELSE Root(dot * dot, magnitudeA * magnitudeB)

cosineSimilarity(a, b) ==
    IF DOMAIN a = {} \/ DOMAIN b = {} THEN ScoreZero
    ELSE LET magnitudeA == SumOver(DOMAIN a, [t \in DOMAIN a |-> a[t] * a[t]])
             magnitudeB == SumOver(DOMAIN b, [t \in DOMAIN b |-> b[t] * b[t]])
             smaller == IF Cardinality(DOMAIN a) < Cardinality(DOMAIN b) THEN a ELSE b
             larger == IF Cardinality(DOMAIN a) < Cardinality(DOMAIN b) THEN b ELSE a
             shared == {t \in DOMAIN smaller : t \in DOMAIN larger}
             dot == SumOver(shared, [t \in shared |-> smaller[t] * larger[t]])
         IN IF magnitudeA * magnitudeB = 0 THEN ScoreZero
            \* Math.min(1, Math.max(0, dot / denom))
            ELSE IF dot * dot >= magnitudeA * magnitudeB
            THEN IF DenomAboveDot(magnitudeA, magnitudeB)
                 THEN ScoreBelowOne ELSE ScoreOne
            ELSE Root(dot * dot, magnitudeA * magnitudeB)

(***************************************************************************)
(* Number(score.toFixed(4)): the nearest ten-thousandth of sqrt(n/d).      *)
(* k is reached when (2k-1)^2 * d <= 4 * Scale^2 * n; the product is       *)
(* worked out in limbs of base Scale to stay inside 32-bit integers.       *)
(***************************************************************************)
ReachesHalf(k, s) ==
    LET sq == (2 * k - 1) * (2 * k - 1)
        hi == sq \div Scale
        lo == sq % Scale
        dh == s.d \div Scale
        dl == s.d % Scale
        mid == hi * dl + lo * dh + (lo * dl) \div Scale
        top == hi * dh + mid \div Scale
    IN top < 4 * s.n \/ (top = 4 * s.n /\ mid % Scale = 0 /\ (lo * dl) % Scale = 0)

RECURSIVE NearestBetween(_, _, _)
\* the largest k in lo..hi with ReachesHalf(k, s); lo is known to qualify
NearestBetween(lo, hi, s) ==
    IF lo = hi THEN lo
    ELSE LET mid == (lo + hi + 1) \div 2
         IN IF ReachesHalf(mid, s) THEN NearestBetween(mid, hi, s)
            ELSE NearestBetween(lo, mid - 1, s)

\* the largest k with k^2 * d <= Scale^2 * n: digits cut off, not rounded
ReachesWhole(k, s) ==
    LET sq == k * k
        hi == sq \div Scale
        lo == sq % Scale
        q == hi * s.d + (lo * s.d) \div Scale
        r == (lo * s.d) % Scale
        rhs == Scale * s.n
    IN q < rhs \/ (q = rhs /\ r = 0)

RECURSIVE WholeBetween(_, _, _)
WholeBetween(lo, hi, s) ==
    IF lo = hi THEN lo
    ELSE LET mid == (lo + hi + 1) \div 2
         IN IF ReachesWhole(mid, s) THEN WholeBetween(mid, hi, s)
            ELSE WholeBetween(lo, mid - 1, s)

toFixed4Truncating(s) == IF s.n = 0 THEN 0 ELSE WholeBetween(0, Scale, s)

toFixed4(s) == IF s.n = 0 THEN 0 ELSE NearestBetween(0, Scale, s)

(***************************************************************************)
(* plagiarism.ts: createContentHash.  SHA-256 is modelled as an injective  *)
(* tagging of the hashed text: equal texts give equal digests and, as for  *)
(* every digest observed in practice, different texts different digests.   *)
(***************************************************************************)
Sha256Hex(text) == <<"sha256">> \o text

\* the digest of the empty text handed back where there is no text
createContentHashAlways(normalized) ==
    IF ~Truthy(normalized) THEN Some(Sha256Hex(<<>>))
    ELSE Some(Sha256Hex(normalized.val))

createContentHash(normalized) ==
    IF ~Truthy(normalized) THEN None
    ELSE Some(Sha256Hex(normalized.val))

(***************************************************************************)
(* plagiarism.ts: extractSubmissionText.  A file is its extension and what *)
(* its reader hands back: the text read, or undefined after a failure that *)
(* the reader caught (readTextFile / readJsonFile / readPdfFile /          *)
(* readDocxFile).                                                          *)
(***************************************************************************)
ExtTxt == <<".", "t", "x", "t">>
ExtMd == <<".", "m", "d">>
ExtMarkdown == <<".", "m", "a", "r", "k", "d", "o", "w", "n">>
ExtCsv == <<".", "c", "s", "v">>
ExtTsv == <<".", "t", "s", "v">>
ExtJson == <<".", "j", "s", "o", "n">>
ExtPdf == <<".", "p", "d", "f">>
ExtDocx == <<".", "d", "o", "c", "x">>

TEXT_EXTENSIONS == {ExtTxt, ExtMd, ExtMarkdown, ExtCsv, ExtTsv, ExtJson}

\* a file of any extension read as text
FileChunkAnyExtension(file) ==
    IF Truthy(file.content) THEN <<file.content.val>> ELSE <<>>

\* the chunk one file contributes: empty, or the single string pushed;
\* file.extname is path.extname(filePath) as written in the path
FileChunk(file) ==
    LET extension == toLowerCase(file.extname)
    IN IF extension \in TEXT_EXTENSIONS \/ extension = ExtPdf \/ extension = ExtDocx
       THEN IF Truthy(file.content) THEN <<file.content.val>> ELSE <<>>
       ELSE <<>>

RECURSIVE FileChunksUntilFailure(_)
\* the loop left at the first file whose reader failed
FileChunksUntilFailure(files) ==
    IF files = <<>> THEN <<>>
    ELSE IF Head(files).content = None THEN <<>>
    ELSE FileChunk(Head(files)) \o FileChunksUntilFailure(Tail(files))

RECURSIVE FileChunks(_)
FileChunks(files) ==
    IF files = <<>> THEN <<>>
    ELSE FileChunk(Head(files)) \o FileChunks(Tail(files))

RECURSIVE JoinNewline(_)
\* chunks.join('\n')
JoinNewline(chunks) ==
    IF chunks = <<>> THEN <<>>
    ELSE IF Len(chunks) = 1 THEN Head(chunks)
    ELSE Head(chunks) \o <<"\n">> \o JoinNewline(Tail(chunks))

\* the literal text pushed after the files
extractSubmissionTextLiteralLast(files, providedText) ==
    LET chunks == FileChunks(files)
                  \o (IF Truthy(providedText) THEN <<providedText.val>> ELSE <<>>)
        combined == trim(JoinNewline(chunks))
    IN IF Len(combined) > 0 THEN Some(combined) ELSE None

extractSubmissionText(files, providedText) ==
    LET chunks == (IF Truthy(providedText) THEN <<providedText.val>> ELSE <<>>)
                  \o FileChunks(files)
        combined == trim(JoinNewline(chunks))
    IN IF Len(combined) > 0 THEN Some(combined) ELSE None

(***************************************************************************)
(* plagiarism.ts: toObjectId.  An _id is an ObjectId or a string; the      *)
(* ObjectId constructor accepts a string of 24 hex characters and throws   *)
(* on any other string.                                                    *)
(***************************************************************************)
ObjectId(n) == [kind |-> "ObjectId", hex |-> TRUE, n |-> n]
HexString(n) == [kind |-> "string", hex |-> TRUE, n |-> n]
OtherString(n) == [kind |-> "string", hex |-> FALSE, n |-> n]

toObjectId(value) ==
    IF value.kind = "string"
    THEN IF value.hex THEN [threw |-> FALSE, id |-> ObjectId(value.n)]
         ELSE [threw |-> TRUE, id |-> value]
    ELSE [threw |-> FALSE, id |-> value]

(***************************************************************************)
(* plagiarism.ts: buildSimilarityReport.                                   *)
(***************************************************************************)
\* the hash comparison without the two presence tests
PeerScoreNoPresenceCheck(vector, contentHash, peer) ==
    IF contentHash = peer.contentHash
    THEN ScoreOne
    ELSE IF Truthy(peer.normalizedText)
    THEN cosineSimilarity(vector, buildVector(peer.normalizedText))
    ELSE ScoreZero

\* the exact-duplicate shortcut taken only for a peer that also has text
PeerScoreShortcutNeedsText(vector, contentHash, peer) ==
    IF Truthy(peer.normalizedText)
    THEN IF Truthy(contentHash) /\ Truthy(peer.contentHash)
            /\ contentHash.val = peer.contentHash.val
         THEN ScoreOne
         ELSE cosineSimilarity(vector, buildVector(peer.normalizedText))
    ELSE ScoreZero

\* the score variable of one loop iteration, before rounding
PeerScore(vector, contentHash, peer) ==
    IF Truthy(contentHash) /\ Truthy(peer.contentHash)
       /\ contentHash.val = peer.contentHash.val
    THEN ScoreOne
    ELSE IF Truthy(peer.normalizedText)
    THEN cosineSimilarity(vector, buildVector(peer.normalizedText))
    ELSE ScoreZero

RECURSIVE CollectMatches(_, _, _, _, _)
\* the for loop over peers from index i on; matches is the array so far
CollectMatches(vector, contentHash, peers, i, matches) ==
    IF i > Len(peers) THEN [threw |-> FALSE, matches |-> matches]
    ELSE LET score == PeerScore(vector, contentHash, peers[i])
         IN IF Positive(score)
            THEN LET oid == toObjectId(peers[i]._id)
                 IN IF oid.threw THEN [threw |-> TRUE, matches |-> matches]
                    ELSE CollectMatches(vector, contentHash, peers, i + 1,
                             Append(matches,
                                 [submissionId |-> oid.id, score |-> toFixed4(score)]))
            ELSE CollectMatches(vector, contentHash, peers, i + 1, matches)

\* the comparator turned round: a.score - b.score
RECURSIVE InsertAscending(_, _)
InsertAscending(sorted, m) ==
    IF sorted = <<>> THEN <<m>>
    ELSE IF Head(sorted).score - m.score > 0 THEN <<m>> \o sorted
    ELSE <<Head(sorted)>> \o InsertAscending(Tail(sorted), m)

\* insert m behind every element whose score is not smaller (stable, descending)
RECURSIVE InsertDescending(_, _)
InsertDescending(sorted, m) ==
    IF sorted = <<>> THEN <<m>>
    ELSE IF m.score - Head(sorted).score > 0 THEN <<m>> \o sorted
    ELSE <<Head(sorted)>> \o InsertDescending(Tail(sorted), m)

\* the sort left out: matches stay in peer order
Unsorted(matches, sorted) == matches

RECURSIVE SortDescending(_, _)
\* matches.sort((a, b) => b.score - a.score)
SortDescending(matches, sorted) ==
    IF matches = <<>> THEN sorted
    ELSE SortDescending(Tail(matches), InsertDescending(sorted, Head(matches)))

MakeReport(score, matches, contentHash, normalizedText) ==
    [score |-> score, category |-> bucketScore(score), matches |-> matches,
     contentHash |-> contentHash, normalizedText |-> normalizedText]

\* the early return computing the hash itself instead of passing it through
EmptyReportRehashed(contentHash, normalizedText) ==
    [score |-> 0, category |-> "none", matches |-> <<>>,
     contentHash |-> createContentHash(normalizedText),
     normalizedText |-> normalizedText]

\* the report of the early return for a falsy normalizedText
EmptyReport(contentHash, normalizedText) ==
    [score |-> 0, category |-> "none", matches |-> <<>>,
     contentHash |-> contentHash, normalizedText |-> normalizedText]

\* const topScore = matches[0]?.score ?? 0
TopScore(matches) == IF matches = <<>> THEN 0 ELSE matches[1].score

buildSimilarityReport(normalizedText, contentHash, peers) ==
    IF ~Truthy(normalizedText)
    THEN [outcome |-> "returned", report |-> EmptyReport(contentHash, normalizedText)]
    ELSE LET vector == buildVector(normalizedText)
             loop == CollectMatches(vector, contentHash, peers, 1, <<>>)
             matches == SortDescending(loop.matches, <<>>)
             topScore == TopScore(matches)
         IN IF loop.threw
            THEN [outcome |-> "threw",
                  report |-> MakeReport(0, <<>>, contentHash, normalizedText)]
            ELSE [outcome |-> "returned",
                  report |-> MakeReport(topScore, matches, contentHash, normalizedText)]

(***************************************************************************)
(* Inputs of the report builder.                                           *)
(***************************************************************************)
Tokens == {<<"a">>, <<"b">>}

RECURSIVE JoinSpace(_)
JoinSpace(toks) ==
    IF toks = <<>> THEN <<>>
    ELSE IF Len(toks) = 1 THEN Head(toks)
    ELSE Head(toks) \o <<" ">> \o JoinSpace(Tail(toks))

\* the normalized texts "a", "b", "a b", "a a b" and "a b b": their pairwise
\* cosines are 0, 0.4472, 0.7071, 0.8, 0.8944, 0.9487 and 1
NormalizedTexts ==
    {JoinSpace(ts) : ts \in {<<<<"a">>>>, <<<<"b">>>>, <<<<"a">>, <<"b">>>>,
                             <<<<"a">>, <<"a">>, <<"b">>>>,
                             <<<<"a">>, <<"b">>, <<"b">>>>}}

TextArgs == {None} \cup {Some(t) : t \in NormalizedTexts}

\* a peer's content hash is absent or one of two digests
HashArgs == {None} \cup {createContentHash(Some(t)) : t \in Tokens}

\* the submission's content hash is absent or the first of these digests
\* (which of the two it is makes no difference to the comparison)
SubmissionHashArgs == {None, createContentHash(Some(<<"a">>))}

\* the ways a caller writes the identifier of peer n
IdArgs(n) == {ObjectId(n), HexString(n), OtherString(n)}

\* the peer lists of at most MaxPeers peers; peer i carries identifier i,
\* and one list writes all its identifiers the same way
PeerLists ==
    UNION {{[i \in 1..k |-> [_id |-> id[i], normalizedText |-> body[i][1],
                             contentHash |-> body[i][2]]] :
                body \in [1..k -> TextArgs \X HashArgs],
                id \in {[i \in 1..k |-> ObjectId(i)], [i \in 1..k |-> HexString(i)],
                        [i \in 1..k |-> OtherString(i)]}} :
           k \in 0..MaxPeers}

Pending == [outcome |-> "pending", report |-> MakeReport(0, <<>>, None, None)]

NoRequest == [op |-> "none", status |-> 0, submissionId |-> 0, notifBefore |-> 0]

NoAssignment == [isActive |-> FALSE, createdBy |-> None]

\* the store is not part of a bare call of the report builder
StoreIdle ==
    /\ submissions = <<>>
    /\ notifications = <<>>
    /\ assignment = NoAssignment
    /\ overdue = FALSE
    /\ last = NoRequest
    /\ opCount = 0

\* no request is in flight and no bare call of a helper is being made
HelpersIdle ==
    /\ inflight = <<>>
    /\ callArgs = <<>>
    /\ callRet = None
    /\ callPc = "idle"

InitReport ==
    /\ StoreIdle
    /\ HelpersIdle
    /\ argText \in TextArgs
    /\ argHash \in SubmissionHashArgs
    /\ argPeers \in PeerLists
    /\ ret = Pending
    /\ rpc = "ready"

\* the call sorting the peers array itself, by descending text length
CallSortsPeersInPlace ==
    /\ rpc = "ready"
    /\ ret' = buildSimilarityReport(argText, argHash, argPeers)
    /\ rpc' = "returned"
    /\ argPeers' = IF Len(argPeers) = 2
                       /\ Len(argPeers[1].normalizedText.val)
                            < Len(argPeers[2].normalizedText.val)
                    THEN <<argPeers[2], argPeers[1]>>
                    ELSE argPeers
    /\ UNCHANGED <<argText, argHash>>
    /\ UNCHANGED storeVars
    /\ UNCHANGED <<inflight, callArgs, callRet, callPc>>

\* one call of buildSimilarityReport on the drawn arguments
CallBuildSimilarityReport ==
    /\ rpc = "ready"
    /\ ret' = buildSimilarityReport(argText, argHash, argPeers)
    /\ rpc' = "returned"
    /\ UNCHANGED <<argText, argHash, argPeers>>
    /\ UNCHANGED storeVars
    /\ UNCHANGED <<inflight, callArgs, callRet, callPc>>

NextReport == CallBuildSimilarityReport

SpecReport == InitReport /\ [][NextReport]_vars

(***************************************************************************)
(* A call of buildSimilarityReport on long texts that share one word.      *)
(***************************************************************************)
\* the normalized text made of the word first and n times the word filler
LongText(first, filler, n) ==
    [i \in 1..(2 * n + 1) |->
        IF i = 1 THEN first ELSE IF i % 2 = 0 THEN " " ELSE filler] \o <<>>

Repeats == (MaxRepeat - 2)..MaxRepeat

\* "a b b ... b"
LongSubmissionTexts == {Some(LongText("a", "b", n)) : n \in Repeats}

\* "a", "c" and "a c c ... c"
LongPeerTexts ==
    {Some(<<"a">>), Some(<<"c">>)} \cup {Some(LongText("a", "c", n)) : n \in Repeats}

LongPeerLists ==
    UNION {[1..k -> LongPeerTexts] : k \in 0..MaxPeers}

\* the peers as Submission.find(...).lean() hands them over
LongPeers(texts) ==
    [i \in DOMAIN texts |-> [_id |-> ObjectId(i), normalizedText |-> texts[i],
                             contentHash |-> createContentHash(texts[i])]]

InitLongTexts ==
    /\ StoreIdle
    /\ HelpersIdle
    /\ argText \in LongSubmissionTexts
    /\ argHash = createContentHash(argText)
    /\ \E texts \in LongPeerLists : argPeers = LongPeers(texts)
    /\ ret = Pending
    /\ rpc = "ready"

NextLongTexts == CallBuildSimilarityReport

SpecLongTexts == InitLongTexts /\ [][NextLongTexts]_vars

(***************************************************************************)
(* A bare call of cosineSimilarity on the vectors of two normalized texts. *)
(***************************************************************************)
\* absent, "a", "b", "a b", "b a", "a a b", "a b b", "a a b b", "c d",
\* "a b c d", "a b x y"
VectorTexts ==
    {None} \cup
    {Some(JoinSpace(ts)) :
        ts \in {<<<<"a">>>>, <<<<"b">>>>, <<<<"a">>, <<"b">>>>, <<<<"b">>, <<"a">>>>,
                <<<<"a">>, <<"a">>, <<"b">>>>, <<<<"a">>, <<"b">>, <<"b">>>>,
                <<<<"a">>, <<"a">>, <<"b">>, <<"b">>>>,
                <<<<"c">>, <<"d">>>>,
                <<<<"a">>, <<"b">>, <<"c">>, <<"d">>>>,
                <<<<"a">>, <<"b">>, <<"x">>, <<"y">>>>}}

InitCosine ==
    /\ StoreIdle
    /\ argText = None
    /\ argHash = None
    /\ argPeers = <<>>
    /\ ret = Pending
    /\ rpc = "idle"
    /\ inflight = <<>>
    /\ callArgs \in VectorTexts \X VectorTexts
    /\ callRet = ScoreZero
    /\ callPc = "ready"

CallCosineSimilarity ==
    /\ callPc = "ready"
    /\ callRet' = cosineSimilarity(buildVector(callArgs[1]), buildVector(callArgs[2]))
    /\ callPc' = "returned"
    /\ UNCHANGED <<callArgs, inflight>>
    /\ UNCHANGED storeVars
    /\ UNCHANGED reportVars

NextCosine == CallCosineSimilarity

SpecCosine == InitCosine /\ [][NextCosine]_vars

(***************************************************************************)
(* A bare call of normalizeText on a raw text.                             *)
(***************************************************************************)
\* a lower-case letter, an upper-case letter, a digit, two kinds of white
\* space and a punctuation mark
RawChars == {"a", "B", "7", " ", "\n", "!"}

\* undefined and every string of at most MaxLen of these characters
RawInputs ==
    {None} \cup UNION {{Some(t) : t \in [1..n -> RawChars]} : n \in 0..MaxLen}

InitNormalize ==
    /\ StoreIdle
    /\ argText = None
    /\ argHash = None
    /\ argPeers = <<>>
    /\ ret = Pending
    /\ rpc = "idle"
    /\ inflight = <<>>
    /\ callArgs \in RawInputs
    /\ callRet = None
    /\ callPc = "ready"

CallNormalizeText ==
    /\ callPc = "ready"
    /\ callRet' = normalizeText(callArgs)
    /\ callPc' = "returned"
    /\ UNCHANGED <<callArgs, inflight>>
    /\ UNCHANGED storeVars
    /\ UNCHANGED reportVars

NextNormalize == CallNormalizeText

SpecNormalize == InitNormalize /\ [][NextNormalize]_vars

(***************************************************************************)
(* A bare call of extractSubmissionText on a list of files and a literal   *)
(* text.                                                                   *)
(***************************************************************************)
ExtExe == <<".", "e", "x", "e">>

\* files whose reader hands back text ("p", "q", a blank, the empty string),
\* files whose reader failed (an unreadable text file, malformed JSON, a
\* corrupt PDF, a DOCX without its extraction package) and files of an
\* extension that is not read at all
FilePool ==
    {[extname |-> ExtTxt, content |-> Some(<<"p">>)],
     [extname |-> <<".", "M", "D">>, content |-> Some(<<"q">>)],
     [extname |-> ExtPdf, content |-> Some(<<"q">>)],
     [extname |-> ExtCsv, content |-> Some(<<" ">>)],
     [extname |-> ExtTxt, content |-> Some(<<>>)],
     [extname |-> ExtTxt, content |-> None],
     [extname |-> ExtJson, content |-> None],
     [extname |-> ExtPdf, content |-> None],
     [extname |-> ExtDocx, content |-> None],
     [extname |-> ExtExe, content |-> Some(<<"p">>)],
     [extname |-> <<>>, content |-> Some(<<"q">>)]}

\* every list of at most MaxFiles of these files
FileLists == UNION {[1..n -> FilePool] : n \in 0..MaxFiles}

\* providedText: undefined, the empty string, "t" and " t"
ProvidedTexts == {None, Some(<<>>), Some(<<"t">>), Some(<<" ", "t">>)}

InitExtract ==
    /\ StoreIdle
    /\ argText = None
    /\ argHash = None
    /\ argPeers = <<>>
    /\ ret = Pending
    /\ rpc = "idle"
    /\ inflight = <<>>
    /\ callArgs \in FileLists \X ProvidedTexts
    /\ callRet = None
    /\ callPc = "ready"

CallExtractSubmissionText ==
    /\ callPc = "ready"
    /\ callRet' = extractSubmissionText(callArgs[1], callArgs[2])
    /\ callPc' = "returned"
    /\ UNCHANGED <<callArgs, inflight>>
    /\ UNCHANGED storeVars
    /\ UNCHANGED reportVars

NextExtract == CallExtractSubmissionText

SpecExtract == InitExtract /\ [][NextExtract]_vars

(***************************************************************************)
(* submissionController.ts: submitAssignment and updateSubmission.  One    *)
(* action is one request handled from validation to response.              *)
(***************************************************************************)
TeacherId == 0
Students == 1..MaxStudents

StoredAssignmentId == 1
UnknownAssignmentId == 2

AlertThreshold == 8000

\* Submission.find({ assignmentId, _id: { $ne: exceptId } })
\*     .select('_id normalizedText contentHash').lean(), from document i on
RECURSIVE FindPeers(_, _, _, _)
FindPeers(subs, assignmentId, exceptId, i) ==
    IF i > Len(subs) THEN <<>>
    ELSE (IF subs[i].assignmentId = assignmentId /\ i # exceptId
          THEN <<[_id |-> ObjectId(i), normalizedText |-> subs[i].normalizedText,
                  contentHash |-> subs[i].contentHash]>>
          ELSE <<>>)
         \o FindPeers(subs, assignmentId, exceptId, i + 1)

\* the schema's trim: true on a stored string
TrimStored(text) == IF text.some THEN Some(trim(text.val)) ELSE text

\* similarityReport: { score, category, matches } as stored with a document
StoredReport(report) ==
    [score |-> report.score, category |-> report.category, matches |-> report.matches]

\* the peer's top score overwritten with the new match score
ReciprocalEntryOverwritesScore(peer, submissionId, match) ==
    LET matches == peer.similarityReport.matches
        found == {j \in DOMAIN matches : matches[j].submissionId = ObjectId(submissionId)}
        existingIndex == IF found = {} THEN 0
                         ELSE CHOOSE j \in found : \A k \in found : j <= k
        newMatches == IF existingIndex > 0
                      THEN [matches EXCEPT ![existingIndex].score = match.score]
                      ELSE Append(matches, [submissionId |-> ObjectId(submissionId),
                                            score |-> match.score])
        newScore == match.score
    IN [peer EXCEPT !.similarityReport =
            [score |-> newScore, category |-> bucketScore(newScore),
             matches |-> newMatches]]

\* the body of the Promise.all callback: the peer document after peer.save()
ReciprocalEntry(peer, submissionId, match) ==
    LET matches == peer.similarityReport.matches
        found == {j \in DOMAIN matches : matches[j].submissionId = ObjectId(submissionId)}
        existingIndex == IF found = {} THEN 0
                         ELSE CHOOSE j \in found : \A k \in found : j <= k
        newMatches == IF existingIndex > 0
                      THEN [matches EXCEPT ![existingIndex].score = match.score]
                      ELSE Append(matches, [submissionId |-> ObjectId(submissionId),
                                            score |-> match.score])
        newScore == IF peer.similarityReport.score >= match.score
                    THEN peer.similarityReport.score ELSE match.score
    IN [peer EXCEPT !.similarityReport =
            [score |-> newScore, category |-> bucketScore(newScore),
             matches |-> newMatches]]

RECURSIVE UpdatePeers(_, _, _)
\* Promise.all(report.matches.map(...)): every matched peer is read, given its
\* reciprocal entry and saved; the matches name different peers
UpdatePeers(subs, matches, submissionId) ==
    IF matches = <<>> THEN subs
    ELSE LET id == Head(matches).submissionId.n
         IN IF id \notin DOMAIN subs
            THEN UpdatePeers(subs, Tail(matches), submissionId)
            ELSE UpdatePeers(
                     [subs EXCEPT ![id] = ReciprocalEntry(subs[id], submissionId, Head(matches))],
                     Tail(matches), submissionId)

Notification(userId, title, submissionId) ==
    [userId |-> userId, title |-> title, relatedId |-> ObjectId(submissionId)]

TeacherTitle(op) ==
    IF op = "submit" THEN "Similar submission detected" ELSE "Similar submission updated"

StudentTitle(op) ==
    IF op = "submit" THEN "High similarity detected in your submission"
    ELSE "High similarity detected in your updated submission"

\* the alert sent for a score just above the threshold only
HighSimilarityAbove(op, score, createdBy, student, submissionId) ==
    IF score > AlertThreshold
    THEN (IF createdBy.some
          THEN <<Notification(createdBy.val, TeacherTitle(op), submissionId)>>
          ELSE <<>>)
         \o <<Notification(student, StudentTitle(op), submissionId)>>
    ELSE <<>>

\* if (report.score >= 0.8) { ... }: the notifications created, in order
HighSimilarityNotifications(op, score, createdBy, student, submissionId) ==
    IF score >= AlertThreshold
    THEN (IF createdBy.some
          THEN <<Notification(createdBy.val, TeacherTitle(op), submissionId)>>
          ELSE <<>>)
         \o <<Notification(student, StudentTitle(op), submissionId)>>
    ELSE <<>>

\* res.status(status).json(...) of a request that stored nothing
Reject(op, status) ==
    /\ last' = [op |-> op, status |-> status, submissionId |-> 0,
                notifBefore |-> Len(notifications)]
    /\ opCount' = opCount + 1
    /\ UNCHANGED <<submissions, notifications>>

\* res.status(status).json(...) of a request that stored document submissionId
Respond(op, status, submissionId) ==
    /\ last' = [op |-> op, status |-> status, submissionId |-> submissionId,
                notifBefore |-> Len(notifications)]
    /\ opCount' = opCount + 1

\* POST /api/submissions
submitAssignment(student, valid, assignmentId, text, files) ==
    /\ opCount < MaxOps
    /\ UNCHANGED <<assignment, overdue>>
    /\ UNCHANGED reportVars
    /\ UNCHANGED <<inflight, callArgs, callRet, callPc>>
    /\ IF ~valid
       THEN Reject("submit", 400)
       ELSE IF assignmentId # StoredAssignmentId \/ ~assignment.isActive
       THEN Reject("submit", 404)
       ELSE IF overdue
       THEN Reject("submit", 400)
       ELSE IF \E i \in DOMAIN submissions :
                  /\ submissions[i].assignmentId = assignmentId
                  /\ submissions[i].studentId = student
       THEN Reject("submit", 400)
       ELSE LET providedText == text
                extractedText == extractSubmissionText(files, providedText)
                normalizedText ==
                    normalizeText(IF extractedText.some THEN extractedText ELSE providedText)
                contentHash == createContentHash(normalizedText)
                peerSubmissions == FindPeers(submissions, assignmentId, 0, 1)
                report == buildSimilarityReport(normalizedText, contentHash,
                                                peerSubmissions).report
                submissionId == Len(submissions) + 1
                created == Append(submissions,
                               [assignmentId |-> assignmentId, studentId |-> student,
                                text |-> TrimStored(providedText), files |-> files,
                                normalizedText |-> normalizedText,
                                contentHash |-> contentHash,
                                similarityReport |-> StoredReport(report)])
            IN /\ submissions' = UpdatePeers(created, report.matches, submissionId)
               /\ notifications' = notifications \o
                      HighSimilarityNotifications("submit", report.score,
                          assignment.createdBy, student, submissionId)
               /\ Respond("submit", 201, submissionId)

\* PUT /api/submissions/:id
updateSubmission(student, valid, id, text, newFiles) ==
    /\ opCount < MaxOps
    /\ UNCHANGED <<assignment, overdue>>
    /\ UNCHANGED reportVars
    /\ UNCHANGED <<inflight, callArgs, callRet, callPc>>
    /\ IF ~valid
       THEN Reject("update", 400)
       ELSE IF id \notin DOMAIN submissions
       THEN Reject("update", 404)
       ELSE IF submissions[id].studentId # student
       THEN Reject("update", 403)
       ELSE IF overdue
       THEN Reject("update", 400)
       ELSE LET submission == submissions[id]
                providedText == IF text.some THEN text ELSE submission.text
                files == IF Len(newFiles) > 0 THEN newFiles ELSE submission.files
                extractedText == extractSubmissionText(files, providedText)
                normalizedText ==
                    normalizeText(IF extractedText.some THEN extractedText ELSE providedText)
                contentHash == createContentHash(normalizedText)
                peerSubmissions == FindPeers(submissions, submission.assignmentId, id, 1)
                report == buildSimilarityReport(normalizedText, contentHash,
                                                peerSubmissions).report
                saved == [submissions EXCEPT ![id] =
                              [submission EXCEPT
                                  !.text = TrimStored(providedText),
                                  !.files = files,
                                  !.normalizedText = normalizedText,
                                  !.contentHash = contentHash,
                                  !.similarityReport = StoredReport(report)]]
            IN /\ submissions' = UpdatePeers(saved, report.matches, id)
               /\ notifications' = notifications \o
                      HighSimilarityNotifications("update", report.score,
                          assignment.createdBy, student, id)
               /\ Respond("update", 200, id)

\* the clock passes assignment.dueDate
DueDatePasses ==
    /\ ~overdue
    /\ overdue' = TRUE
    /\ UNCHANGED <<submissions, notifications, assignment, last, opCount>>
    /\ UNCHANGED reportVars
    /\ UNCHANGED <<inflight, callArgs, callRet, callPc>>

(***************************************************************************)
(* Requests.                                                               *)
(***************************************************************************)
\* req.body.text: not a string, or one of "B, b!" and "a a b"
BodyTexts ==
    {None, Some(<<"B", ",", " ", "b", "!">>), Some(<<"a", " ", "a", " ", "b">>)}

\* req.files: no upload, or one text file that reads "a".  The submissions
\* these requests store normalize to nothing, "a", "b b", "b b a", "a a b"
\* and "a a b a"; "a" and "b b" share no token.
UploadedFiles ==
    {<<>>, <<[extname |-> <<".", "T", "X", "T">>, content |-> Some(<<"a">>)]>>}

Init ==
    /\ submissions = <<>>
    /\ notifications = <<>>
    /\ assignment \in [isActive : BOOLEAN, createdBy : {None, Some(TeacherId)}]
    /\ overdue = FALSE
    /\ last = NoRequest
    /\ opCount = 0
    /\ argText = None
    /\ argHash = None
    /\ argPeers = <<>>
    /\ ret = Pending
    /\ rpc = "idle"
    /\ HelpersIdle

\* the student has a stored submission for the stored assignment
HasSubmitted(student) ==
    \E i \in DOMAIN submissions :
        /\ submissions[i].assignmentId = StoredAssignmentId
        /\ submissions[i].studentId = student

\* document id exists and belongs to the student
Owns(student, id) == id \in DOMAIN submissions /\ submissions[id].studentId = student

\* A request that is turned down before its body is read (failed validation,
\* unknown assignment, second submission, unknown or foreign document) is
\* sent with an empty body: the handler never looks at it.
Next ==
    \/ \E student \in Students, text \in BodyTexts, files \in UploadedFiles :
          /\ ~HasSubmitted(student)
          /\ submitAssignment(student, TRUE, StoredAssignmentId, text, files)
    \/ \E student \in Students, valid \in BOOLEAN,
          assignmentId \in {StoredAssignmentId, UnknownAssignmentId} :
          /\ ~valid \/ assignmentId = UnknownAssignmentId \/ HasSubmitted(student)
          /\ submitAssignment(student, valid, assignmentId, None, <<>>)
    \/ \E student \in Students, id \in DOMAIN submissions,
          text \in BodyTexts, newFiles \in UploadedFiles :
          /\ Owns(student, id)
          /\ updateSubmission(student, TRUE, id, text, newFiles)
    \/ \E student \in Students, valid \in BOOLEAN, id \in 1..(Len(submissions) + 1) :
          /\ ~valid \/ ~Owns(student, id)
          /\ updateSubmission(student, valid, id, None, <<>>)
    \/ DueDatePasses

Spec == Init /\ [][Next]_vars

(***************************************************************************)
(* submissionController.ts: submitAssignment requests handled at the same  *)
(* time.  A handler runs from one await to the next without interruption:  *)
(* the checks up to Submission.findOne, the report computed from the peers *)
(* found, Submission.create, every Submission.findById of a matched peer   *)
(* and every peer.save() are steps of their own, and the steps of          *)
(* different requests interleave.  The callbacks of Promise.all run        *)
(* side by side as well.                                                   *)
(***************************************************************************)
\* the student whose submission is stored before the requests arrive
EarlierStudent == MaxStudents + 1

NoReport == [score |-> 0, category |-> "none", matches |-> <<>>]

\* the document Submission.create is given
NewDocument(student, text, normalizedText, contentHash, report) ==
    [assignmentId |-> StoredAssignmentId, studentId |-> student,
     text |-> TrimStored(text), files |-> <<>>,
     normalizedText |-> normalizedText, contentHash |-> contentHash,
     similarityReport |-> StoredReport(report)]

\* the document stored by an accepted submit of text into an empty collection
FirstSubmission(student, text) ==
    LET normalizedText == normalizeText(extractSubmissionText(<<>>, text))
        contentHash == createContentHash(normalizedText)
    IN NewDocument(student, text, normalizedText, contentHash,
           buildSimilarityReport(normalizedText, contentHash, <<>>).report)

\* a request in flight: where its handler stands and the handler's locals
Request(pc, student, text, status) ==
    [pc |-> pc, student |-> student, text |-> text, status |-> status,
     normalizedText |-> None, contentHash |-> None, report |-> NoReport,
     submissionId |-> 0, peers |-> <<>>]

InitConcurrent ==
    /\ \E text \in BodyTexts : submissions = <<FirstSubmission(EarlierStudent, text)>>
    /\ notifications = <<>>
    /\ assignment = [isActive |-> TRUE, createdBy |-> Some(TeacherId)]
    /\ overdue = FALSE
    /\ last = NoRequest
    /\ opCount = 0
    /\ argText = None
    /\ argHash = None
    /\ argPeers = <<>>
    /\ ret = Pending
    /\ rpc = "idle"
    /\ HelpersIdle

\* lines 209-254: validation, Assignment.findById, the due date and
\* Submission.findOne; the request is answered at once or goes on
BeginSubmit(student, text) ==
    /\ Len(inflight) < MaxRequests
    /\ inflight' = Append(inflight,
           IF ~assignment.isActive THEN Request("done", student, text, 404)
           ELSE IF overdue THEN Request("done", student, text, 400)
           ELSE IF HasSubmitted(student) THEN Request("done", student, text, 400)
           ELSE Request("checked", student, text, 0))
    /\ UNCHANGED storeVars
    /\ UNCHANGED reportVars
    /\ UNCHANGED callVars

\* lines 256-269: the text is extracted, normalized and hashed, the peers are
\* found and the report is built
ComputeReport(r) ==
    /\ inflight[r].pc = "checked"
    /\ LET providedText == inflight[r].text
           extractedText == extractSubmissionText(<<>>, providedText)
           normalizedText ==
               normalizeText(IF extractedText.some THEN extractedText ELSE providedText)
           contentHash == createContentHash(normalizedText)
           peerSubmissions == FindPeers(submissions, StoredAssignmentId, 0, 1)
           report == buildSimilarityReport(normalizedText, contentHash,
                                           peerSubmissions).report
       IN inflight' = [inflight EXCEPT ![r].pc = "reported",
                                       ![r].normalizedText = normalizedText,
                                       ![r].contentHash = contentHash,
                                       ![r].report = StoredReport(report)]
    /\ UNCHANGED storeVars
    /\ UNCHANGED reportVars
    /\ UNCHANGED callVars

\* Submission.create on a collection without the unique index: every
\* request that passed Submission.findOne stores its document
CreateSubmissionWithoutIndex(r) ==
    /\ inflight[r].pc = "reported"
    /\ submissions' = Append(submissions,
           NewDocument(inflight[r].student, inflight[r].text,
               inflight[r].normalizedText, inflight[r].contentHash,
               inflight[r].report))
    /\ inflight' = [inflight EXCEPT
           ![r].pc = "created",
           ![r].submissionId = Len(submissions) + 1,
           ![r].peers = [k \in DOMAIN inflight[r].report.matches |->
                            [state |-> "todo", similarityReport |-> NoReport]]]
    /\ UNCHANGED <<notifications, assignment, overdue, last, opCount>>
    /\ UNCHANGED reportVars
    /\ UNCHANGED callVars

\* lines 271-289: Submission.create; the unique index on (assignmentId,
\* studentId) rejects a second document of the student, and the catch block
\* answers 500
CreateSubmission(r) ==
    /\ inflight[r].pc = "reported"
    /\ IF HasSubmitted(inflight[r].student)
       THEN /\ inflight' = [inflight EXCEPT ![r].pc = "done", ![r].status = 500]
            /\ UNCHANGED submissions
       ELSE /\ submissions' = Append(submissions,
                   NewDocument(inflight[r].student, inflight[r].text,
                       inflight[r].normalizedText, inflight[r].contentHash,
                       inflight[r].report))
            /\ inflight' = [inflight EXCEPT
                   ![r].pc = "created",
                   ![r].submissionId = Len(submissions) + 1,
                   ![r].peers = [k \in DOMAIN inflight[r].report.matches |->
                                    [state |-> "todo", similarityReport |-> NoReport]]]
    /\ UNCHANGED <<notifications, assignment, overdue, last, opCount>>
    /\ UNCHANGED reportVars
    /\ UNCHANGED callVars

\* line 293: the callback of match k reads the peer document
FindPeerById(r, k) ==
    /\ inflight[r].pc = "created"
    /\ k \in DOMAIN inflight[r].peers
    /\ inflight[r].peers[k].state = "todo"
    /\ LET id == inflight[r].report.matches[k].submissionId.n
       IN inflight' = [inflight EXCEPT ![r].peers[k] =
              [state |-> "read", similarityReport |-> submissions[id].similarityReport]]
    /\ UNCHANGED storeVars
    /\ UNCHANGED reportVars
    /\ UNCHANGED callVars

\* lines 296-315: the callback of match k changes its copy of the peer and
\* saves it.  When the stored report is no longer the one that was read, the
\* save either goes through and replaces it, or is refused with mongoose's
\* VersionError (versioned): which of the two depends on the mongoose
\* release installed, so both are taken.
SavePeer(r, k, versioned) ==
    /\ inflight[r].pc = "created"
    /\ k \in DOMAIN inflight[r].peers
    /\ inflight[r].peers[k].state = "read"
    /\ LET match == inflight[r].report.matches[k]
           id == match.submissionId.n
           copy == [submissions[id] EXCEPT
                       !.similarityReport = inflight[r].peers[k].similarityReport]
           changed == submissions[id].similarityReport # copy.similarityReport
       IN IF changed /\ versioned
          THEN /\ inflight' = [inflight EXCEPT ![r].peers[k].state = "failed"]
               /\ UNCHANGED submissions
          ELSE /\ submissions' = [submissions EXCEPT ![id].similarityReport =
                      ReciprocalEntry(copy, inflight[r].submissionId, match).similarityReport]
               /\ inflight' = [inflight EXCEPT ![r].peers[k].state = "saved"]
    /\ UNCHANGED <<notifications, assignment, overdue, last, opCount>>
    /\ UNCHANGED reportVars
    /\ UNCHANGED callVars

\* lines 319-369: once every callback has ended, the notifications and the
\* 201 response, or the catch block's 500 when a save was refused
RespondSubmit(r) ==
    /\ inflight[r].pc = "created"
    /\ \A k \in DOMAIN inflight[r].peers : inflight[r].peers[k].state \in {"saved", "failed"}
    /\ IF \E k \in DOMAIN inflight[r].peers : inflight[r].peers[k].state = "failed"
       THEN /\ inflight' = [inflight EXCEPT ![r].pc = "done", ![r].status = 500]
            /\ UNCHANGED notifications
       ELSE /\ inflight' = [inflight EXCEPT ![r].pc = "done", ![r].status = 201]
            /\ notifications' = notifications \o
                   HighSimilarityNotifications("submit", inflight[r].report.score,
                       assignment.createdBy, inflight[r].student,
                       inflight[r].submissionId)
    /\ UNCHANGED <<submissions, assignment, overdue, last, opCount>>
    /\ UNCHANGED reportVars
    /\ UNCHANGED callVars

NextConcurrent ==
    \/ \E student \in Students, text \in BodyTexts : BeginSubmit(student, text)
    \/ \E r \in DOMAIN inflight : ComputeReport(r)
    \/ \E r \in DOMAIN inflight : CreateSubmission(r)
    \/ \E r \in DOMAIN inflight, k \in 1..(MaxStudents + 1) : FindPeerById(r, k)
    \/ \E r \in DOMAIN inflight, k \in 1..(MaxStudents + 1), versioned \in BOOLEAN :
          SavePeer(r, k, versioned)
    \/ \E r \in DOMAIN inflight : RespondSubmit(r)

SpecConcurrent == InitConcurrent /\ [][NextConcurrent]_vars

(***************************************************************************)
(* Properties of buildSimilarityReport (checked under SpecReport).         *)
(***************************************************************************)
Returned == rpc = "returned" /\ ret.outcome = "returned"

RECURSIVE MaxScore(_)
\* the largest score of a list of matches, 0 for the empty list
MaxScore(ms) ==
    IF ms = <<>> THEN 0
    ELSE LET rest == MaxScore(Tail(ms))
         IN IF Head(ms).score >= rest THEN Head(ms).score ELSE rest

\* the raw score the loop computes for peer i of the call's arguments
ArgPeerScore(i) == PeerScore(buildVector(argText), argHash, argPeers[i])

\* the entries of the returned matches that name peer i
EntriesFor(i) ==
    {j \in DOMAIN ret.report.matches : ret.report.matches[j].submissionId = ObjectId(i)}

\* C1: the returned report's score is the maximum score among its matches,
\* and 0 when matches is empty.
C1_ScoreIsMaxOfMatches ==
    Returned =>
        /\ ret.report.score = MaxScore(ret.report.matches)
        /\ (ret.report.matches = <<>> => ret.report.score = 0)

\* two matches with different scores were returned, the larger is the score
C1_Witness ==
    /\ Returned
    /\ Len(ret.report.matches) = 2
    /\ ret.report.matches[1].score # ret.report.matches[2].score
    /\ ret.report.score = MaxScore(ret.report.matches)
    /\ ret.report.score < Scale

\* C2: the returned matches are in non-increasing order of score, and the
\* first element's score is the report's top-level score.
C2_MatchesSortedDescending ==
    Returned =>
        /\ \A i, j \in DOMAIN ret.report.matches :
               i < j => ret.report.matches[i].score >= ret.report.matches[j].score
        /\ (ret.report.matches # <<>> =>
               ret.report.matches[1].score = ret.report.score)

\* the second peer scored higher than the first, so the sort moved it forward
C2_Witness ==
    /\ Returned
    /\ Len(ret.report.matches) = 2
    /\ ret.report.matches[1].submissionId = ObjectId(2)
    /\ ret.report.matches[2].submissionId = ObjectId(1)
    /\ ret.report.matches[1].score > ret.report.matches[2].score

\* C3: the report's category is the bucket of its score: score >= 0.8 high,
\* 0.6 <= score < 0.8 medium, 0.4 <= score < 0.6 low, score < 0.4 none.
C3_CategoryIsBucketOfScore ==
    Returned =>
        /\ (ret.report.score >= 8000 <=> ret.report.category = "high")
        /\ (ret.report.score >= 6000 /\ ret.report.score < 8000
               <=> ret.report.category = "medium")
        /\ (ret.report.score >= 4000 /\ ret.report.score < 6000
               <=> ret.report.category = "low")
        /\ (ret.report.score < 4000 <=> ret.report.category = "none")

\* a report whose score sits exactly on the lower edge of the high bucket
C3_Witness ==
    /\ Returned
    /\ ret.report.score = 8000
    /\ ret.report.category = "high"

\* C4: with normalizedText absent the call returns score 0, category none,
\* no matches, and the given contentHash and normalizedText, for every
\* peer list.
C4_AbsentTextGivesZeroReport ==
    (rpc = "returned" /\ ~argText.some) =>
        /\ ret.outcome = "returned"
        /\ ret.report.score = 0
        /\ ret.report.category = "none"
        /\ ret.report.matches = <<>>
        /\ ret.report.contentHash = argHash
        /\ ret.report.normalizedText = argText

\* absent text with a present hash, against a peer carrying that very hash
\* and a text, under an identifier that is no ObjectId
C4_Witness ==
    /\ rpc = "returned"
    /\ ~argText.some
    /\ argHash.some
    /\ Len(argPeers) = 2
    /\ argPeers[1].contentHash = argHash
    /\ argPeers[1].normalizedText.some
    /\ argPeers[2]._id = OtherString(2)
    /\ ret.report.matches = <<>>
    /\ ret.report.contentHash = argHash

\* C5: with a present normalizedText, every peer whose present content hash
\* equals the submission's present content hash is in matches with score 1,
\* whatever its normalized text.
C5_EqualHashScoresOne ==
    (Returned /\ Truthy(argText)) =>
        \A i \in DOMAIN argPeers :
            (argHash.some /\ argPeers[i].contentHash.some
             /\ argPeers[i].contentHash.val = argHash.val)
            => /\ ArgPeerScore(i) = ScoreOne
               /\ \E j \in EntriesFor(i) : ret.report.matches[j].score = Scale

\* a peer without any text matched through its hash alone
C5_Witness ==
    /\ Returned
    /\ Truthy(argText)
    /\ \E i \in DOMAIN argPeers :
          /\ argHash.some
          /\ argPeers[i].contentHash = argHash
          /\ ~argPeers[i].normalizedText.some
          /\ \E j \in EntriesFor(i) : ret.report.matches[j].score = Scale

\* the peer list without its element i
WithoutPeer(peers, i) ==
    [k \in 1..(Len(peers) - 1) |-> IF k < i THEN peers[k] ELSE peers[k + 1]]

\* C6: a peer with neither content hash nor normalized text scores 0: it has
\* no entry in matches, and the call ends as it does without that peer (the
\* same matches and scores, no error of its own).
C6_EmptyPeerScoresZero ==
    rpc = "returned" =>
        \A i \in DOMAIN argPeers :
            (~argPeers[i].contentHash.some /\ ~argPeers[i].normalizedText.some)
            => /\ ~Positive(ArgPeerScore(i))
               /\ EntriesFor(i) = {}
               /\ ret = buildSimilarityReport(argText, argHash, WithoutPeer(argPeers, i))

\* an empty peer in front of a peer that matches, submission without a hash
C6_Witness ==
    /\ Returned
    /\ Truthy(argText)
    /\ ~argHash.some
    /\ Len(argPeers) = 2
    /\ ~argPeers[1].contentHash.some
    /\ ~argPeers[1].normalizedText.some
    /\ Len(ret.report.matches) = 1
    /\ ret.report.matches[1].submissionId = ObjectId(2)

\* k is the nearest ten-thousandth of the raw score s
IsRounded(k, s) ==
    /\ k \in 0..Scale
    /\ (k = 0 \/ ReachesHalf(k, s))
    /\ (k = Scale \/ ~ReachesHalf(k + 1, s))

\* C7: matches holds exactly one entry for each peer whose computed score is
\* greater than 0 and none for a peer whose score is 0; an entry carries the
\* peer's identifier and its score rounded to 4 decimals, within [0,1].
C7_OneEntryPerPositivePeer ==
    Returned =>
        /\ \A i \in DOMAIN argPeers :
              IF Truthy(argText) /\ Positive(ArgPeerScore(i))
              THEN /\ Cardinality(EntriesFor(i)) = 1
                   /\ \A j \in EntriesFor(i) :
                         IsRounded(ret.report.matches[j].score, ArgPeerScore(i))
              ELSE EntriesFor(i) = {}
        /\ \A j \in DOMAIN ret.report.matches :
              \E i \in DOMAIN argPeers : j \in EntriesFor(i)

\* one peer scored 0 and one scored strictly between 0 and 1, with the fifth
\* decimal of the raw score rounding the fourth up
C7_Witness ==
    /\ Returned
    /\ Len(argPeers) = 2
    /\ Len(ret.report.matches) = 1
    /\ \E i \in DOMAIN argPeers :
          /\ EntriesFor(i) # {}
          /\ ArgPeerScore(i) = [n |-> 9, d |-> 10, below |-> FALSE]
          /\ ret.report.matches[1].score = 9487

\* C8: buildSimilarityReport never raises an error: every call returns a
\* report, whatever the peers' identifiers are.
C8_NeverThrows == rpc = "returned" => ret.outcome = "returned"

\* C9: the call leaves the supplied peer collection and every peer record
\* as they were.
C9_PeersUnchanged ==
    [][rpc = "ready" /\ rpc' = "returned"
          => argPeers' = argPeers /\ submissions' = submissions]_vars

\* a call that ranked two peers against their order in the collection
C9_Witness ==
    /\ Returned
    /\ Len(argPeers) = 2
    /\ Len(ret.report.matches) = 2
    /\ ret.report.matches[1].submissionId = ObjectId(2)
    /\ ret.report.matches[1].score > ret.report.matches[2].score
    /\ argPeers[1]._id = HexString(1)

(***************************************************************************)
(* Properties of the submit and update requests (checked under Spec).      *)
(***************************************************************************)
\* the notifications created by the request handled last
CreatedByLast == SubSeq(notifications, last.notifBefore + 1, Len(notifications))

\* those of them that tell the submitting student about their own submission
StudentAlertsOfLast ==
    {i \in DOMAIN CreatedByLast :
        /\ CreatedByLast[i].userId = submissions[last.submissionId].studentId
        /\ CreatedByLast[i].relatedId = ObjectId(last.submissionId)
        /\ CreatedByLast[i].title \in
               {"High similarity detected in your submission",
                "High similarity detected in your updated submission"}}

\* the request handled last stored a report (it was answered 201 or 200)
LastStoredReport == last.status \in {200, 201}

\* the score of the report that request computed, as stored with its document
LastScore == submissions[last.submissionId].similarityReport.score

\* C10: a submit or update creates the high-similarity notification for the
\* submitting student exactly when the report score it computed is >= 0.8,
\* and creates no similarity notification at all when the score is below 0.8
\* (a request that is turned down computes no report and creates none).
C10_AlertIffScoreAtLeastThreshold ==
    last.op # "none" =>
        IF LastStoredReport
        THEN /\ (Cardinality(StudentAlertsOfLast) = 1 <=> LastScore >= 8000)
             /\ (StudentAlertsOfLast = {} <=> LastScore < 8000)
             /\ (LastScore < 8000 => CreatedByLast = <<>>)
        ELSE CreatedByLast = <<>>

\* an update whose report scores exactly 0.8 told the teacher and the student
C10_Witness ==
    /\ last.op = "update"
    /\ LastStoredReport
    /\ LastScore = 8000
    /\ Len(CreatedByLast) = 2
    /\ Cardinality(StudentAlertsOfLast) = 1

\* the matches stored with document id
StoredMatches(subs, id) == subs[id].similarityReport.matches

\* C11: when a submit or update records a reciprocal entry on a matched peer,
\* the peer's stored top score becomes the larger of its previous top score
\* and the new match score, its category the bucket of that score, and the
\* peer lists the submission with the match score.
C11_ReciprocalTopScoreIsMax ==
    [][(opCount' # opCount /\ last'.status \in {200, 201}) =>
          \A j \in DOMAIN StoredMatches(submissions', last'.submissionId) :
              LET match == StoredMatches(submissions', last'.submissionId)[j]
                  peer == match.submissionId.n
                  previous == submissions[peer].similarityReport.score
                  newScore == IF previous >= match.score THEN previous ELSE match.score
              IN /\ submissions'[peer].similarityReport.score = newScore
                 /\ submissions'[peer].similarityReport.category = bucketScore(newScore)
                 /\ \E k \in DOMAIN StoredMatches(submissions', peer) :
                        /\ StoredMatches(submissions', peer)[k].submissionId
                               = ObjectId(last'.submissionId)
                        /\ StoredMatches(submissions', peer)[k].score = match.score]_vars

\* the request handled last matched a peer below that peer's top score: the
\* peer kept its top score and lists the submission with the lower score
C11_Witness ==
    /\ LastStoredReport
    /\ \E j \in DOMAIN StoredMatches(submissions, last.submissionId) :
          LET match == StoredMatches(submissions, last.submissionId)[j]
              peer == match.submissionId.n
          IN /\ submissions[peer].similarityReport.score > match.score
             /\ submissions[peer].similarityReport.category = "high"
             /\ match.score < 8000
             /\ \E k \in DOMAIN StoredMatches(submissions, peer) :
                    /\ StoredMatches(submissions, peer)[k].submissionId
                           = ObjectId(last.submissionId)
                    /\ StoredMatches(submissions, peer)[k].score = match.score

\* C13: whenever the stored report of submission A lists submission B with
\* score s, the stored report of B lists A with the same score s.
C13_MatchesAreReciprocal ==
    \A a \in DOMAIN submissions :
        \A j \in DOMAIN StoredMatches(submissions, a) :
            LET match == StoredMatches(submissions, a)[j]
                b == match.submissionId.n
            IN /\ b \in DOMAIN submissions
               /\ \E k \in DOMAIN StoredMatches(submissions, b) :
                      /\ StoredMatches(submissions, b)[k].submissionId = ObjectId(a)
                      /\ StoredMatches(submissions, b)[k].score = match.score

(***************************************************************************)
(* Properties of concurrent submit requests (checked under SpecConcurrent).*)
(***************************************************************************)
\* every request in flight has been answered
AllAnswered == \A r \in DOMAIN inflight : inflight[r].pc = "done"

\* C12: once all the concurrent requests have completed, every peer that a
\* request's stored submission matched holds a reciprocal entry for that
\* submission and a top score at least as large as the match score: no
\* reciprocal update is lost.
C12_NoReciprocalUpdateLost ==
    AllAnswered =>
        \A r \in DOMAIN inflight :
            inflight[r].submissionId > 0 =>
                \A k \in DOMAIN inflight[r].report.matches :
                    LET match == inflight[r].report.matches[k]
                        peer == match.submissionId.n
                    IN /\ \E j \in DOMAIN StoredMatches(submissions, peer) :
                              StoredMatches(submissions, peer)[j].submissionId
                                  = ObjectId(inflight[r].submissionId)
                       /\ submissions[peer].similarityReport.score >= match.score

(***************************************************************************)
(* Further properties of buildSimilarityReport (checked under SpecReport). *)
(***************************************************************************)
\* the category the README's table gives a score shown as a whole percentage
DocumentedCategory(score) ==
    LET percent == (score + 50) \div 100
    IN IF percent = 0 THEN "none"
       ELSE IF percent <= 40 THEN "low"
       ELSE IF percent <= 79 THEN "medium"
       ELSE "high"

\* C14: categories follow the documented ranges: 0% is none, 1% to 40% is
\* low, 41% to 79% is medium, 80% or more is high.
C14_CategoryFollowsDocumentedRanges ==
    Returned => ret.report.category = DocumentedCategory(ret.report.score)

\* peer i has a text that shares no token with the submission's text
SharesNoToken(i) ==
    /\ Truthy(argPeers[i].normalizedText)
    /\ DOMAIN buildVector(argText) \cap DOMAIN buildVector(argPeers[i].normalizedText) = {}

\* the exact-duplicate shortcut applies to peer i
HashesEqual(i) ==
    /\ Truthy(argHash)
    /\ Truthy(argPeers[i].contentHash)
    /\ argHash.val = argPeers[i].contentHash.val

\* C17: the cosine of two vectors that share no token is 0, so a peer whose
\* text shares no token with the submission's and whose hash differs never
\* appears in matches.
C17_NoSharedTokenNoMatch ==
    (Returned /\ Truthy(argText)) =>
        \A i \in DOMAIN argPeers :
            SharesNoToken(i) =>
                /\ cosineSimilarity(buildVector(argText),
                       buildVector(argPeers[i].normalizedText)) = ScoreZero
                /\ (~HashesEqual(i) => EntriesFor(i) = {})

\* of two peers with a text and a hash of their own, the one sharing no token
\* with the submission is left out and the other is matched
C17_Witness ==
    /\ Returned
    /\ Truthy(argText)
    /\ Len(argPeers) = 2
    /\ SharesNoToken(1)
    /\ Truthy(argPeers[1].contentHash)
    /\ ~HashesEqual(1)
    /\ EntriesFor(1) = {}
    /\ ~SharesNoToken(2)
    /\ EntriesFor(2) # {}

(***************************************************************************)
(* Properties of cosineSimilarity (checked under SpecCosine).              *)
(***************************************************************************)
CalledA == buildVector(callArgs[1])
CalledB == buildVector(callArgs[2])

\* sum of squared counts, and sum of products of the counts of shared tokens
SquaredLength(v) == SumOver(DOMAIN v, [t \in DOMAIN v |-> v[t] * v[t]])
DotProduct(v, w) ==
    SumOver(DOMAIN v \cap DOMAIN w, [t \in DOMAIN v \cap DOMAIN w |-> v[t] * w[t]])

\* C15: cosineSimilarity(v, v) equals 1 for every non-empty term vector v.
C15_SelfSimilarityIsOne ==
    (callPc = "returned" /\ CalledA = CalledB /\ DOMAIN CalledA # {}) =>
        callRet = ScoreOne

\* C16: cosineSimilarity(a, b) equals cosineSimilarity(b, a) for every pair of
\* vectors, of equal size or not, empty or not.
C16_Symmetric ==
    callPc = "returned" => callRet = cosineSimilarity(CalledB, CalledA)

\* two different vectors of the same size with a score strictly between 0 and 1
C16_Witness ==
    /\ callPc = "returned"
    /\ Cardinality(DOMAIN CalledA) = Cardinality(DOMAIN CalledB)
    /\ CalledA # CalledB
    /\ callRet = [n |-> 16, d |-> 25, below |-> FALSE]
    /\ callRet = cosineSimilarity(CalledB, CalledA)

\* C18: cosineSimilarity returns 0 when either vector is empty, and otherwise
\* dot / (sqrt(sum of squared counts of a) * sqrt(sum of squared counts of b))
\* on the raw counts, a value within [0, 1]; "a b c d" against "a b x y"
\* scores 0.5.
C18_CosineFormula ==
    callPc = "returned" =>
        /\ IF DOMAIN CalledA = {} \/ DOMAIN CalledB = {}
           THEN callRet = ScoreZero
           ELSE /\ callRet.n * (SquaredLength(CalledA) * SquaredLength(CalledB))
                      = callRet.d * (DotProduct(CalledA, CalledB) * DotProduct(CalledA, CalledB))
                /\ callRet.n >= 0
                /\ callRet.d > 0
                /\ callRet.n <= callRet.d
        /\ (/\ callArgs[1] = Some(<<"a", " ", "b", " ", "c", " ", "d">>)
            /\ callArgs[2] = Some(<<"a", " ", "b", " ", "x", " ", "y">>))
           => (callRet = [n |-> 1, d |-> 4, below |-> FALSE] /\ toFixed4(callRet) = 5000)

\* the call on "a b c d" and "a b x y" returned 0.5
C18_Witness ==
    /\ callPc = "returned"
    /\ callArgs[1] = Some(<<"a", " ", "b", " ", "c", " ", "d">>)
    /\ callArgs[2] = Some(<<"a", " ", "b", " ", "x", " ", "y">>)
    /\ DotProduct(CalledA, CalledB) = 2
    /\ SquaredLength(CalledA) = 4
    /\ toFixed4(callRet) = 5000

(***************************************************************************)
(* Properties of normalizeText (checked under SpecNormalize).              *)
(***************************************************************************)
\* C19: normalizeText is idempotent: normalizing a present result gives that
\* result again.
C19_NormalizeIdempotent ==
    (callPc = "returned" /\ callRet.some) => normalizeText(callRet) = callRet

\* a text with a space next to a punctuation mark, changed by the call
C19_Witness ==
    /\ callPc = "returned"
    /\ callArgs = Some(<<"B", " ", "!", "7">>)
    /\ callRet = Some(<<"b", " ", "7">>)
    /\ normalizeText(callRet) = callRet

\* [A-Za-z0-9]
AlphaNumeric == WordChars \cup {UpperCase[i] : i \in DOMAIN UpperCase}

\* C20: the result of normalizeText is absent or a non-empty string, and it is
\* absent for absent input, empty input, whitespace-only input and input
\* made only of non-alphanumeric characters.
C20_NeverEmptyString ==
    callPc = "returned" =>
        /\ (callRet.some => Len(callRet.val) > 0)
        /\ ((~callArgs.some \/ \A i \in DOMAIN callArgs.val : callArgs.val[i] \notin AlphaNumeric)
            => callRet = None)

\* a text of white space and punctuation only came back absent
C20_Witness ==
    /\ callPc = "returned"
    /\ callArgs = Some(<<" ", "!", "\n", "!">>)
    /\ callRet = None

RECURSIVE WordRuns(_, _)
\* the maximal runs of characters of [a-z0-9] in s, in order; cur is the
\* run being read
WordRuns(s, cur) ==
    IF s = <<>> THEN (IF cur = <<>> THEN <<>> ELSE <<cur>>)
    ELSE IF IsWord(Head(s)) THEN WordRuns(Tail(s), Append(cur, Head(s)))
    ELSE (IF cur = <<>> THEN <<>> ELSE <<cur>>) \o WordRuns(Tail(s), <<>>)

\* C21: a present result of normalizeText holds only characters of [a-z0-9]
\* and single spaces, neither begins nor ends with a space, and is the
\* lower-cased input with every maximal run of other characters between two
\* tokens replaced by one space.
C21_TokensSeparatedByOneSpace ==
    (callPc = "returned" /\ callRet.some) =>
        /\ \A i \in DOMAIN callRet.val : callRet.val[i] \in WordChars \cup {" "}
        /\ \A i \in 1..(Len(callRet.val) - 1) :
               ~(callRet.val[i] = " " /\ callRet.val[i + 1] = " ")
        /\ callRet.val[1] # " "
        /\ callRet.val[Len(callRet.val)] # " "
        /\ callRet.val = JoinSpace(WordRuns(toLowerCase(callArgs.val), <<>>))

\* an upper-case letter, then a punctuation mark and a line break in one
\* run, then a digit
C21_Witness ==
    /\ callPc = "returned"
    /\ callArgs = Some(<<"B", "!", "\n", "7">>)
    /\ callRet = Some(<<"b", " ", "7">>)

(***************************************************************************)
(* Further properties of the submit and update requests (checked under     *)
(* Spec).                                                                  *)
(***************************************************************************)
\* documents i and j belong to one assignment and hold the same normalized
\* text
SameNormalizedText(i, j) ==
    /\ i # j
    /\ submissions[i].assignmentId = submissions[j].assignmentId
    /\ submissions[i].normalizedText.some
    /\ submissions[i].normalizedText = submissions[j].normalizedText

\* C22: the content hash stored with a submission is absent exactly when its
\* normalized text is absent, two submissions with equal normalized texts
\* hold equal hashes, and the report a request computes lists every peer
\* with the same normalized text with score 1.
C22_HashAbsentIffTextAbsent ==
    /\ \A i \in DOMAIN submissions :
           /\ submissions[i].contentHash.some <=> submissions[i].normalizedText.some
           /\ \A j \in DOMAIN submissions :
                  SameNormalizedText(i, j) =>
                      /\ submissions[i].contentHash.some
                      /\ submissions[i].contentHash = submissions[j].contentHash
    /\ LastStoredReport =>
           \A j \in DOMAIN submissions :
               SameNormalizedText(last.submissionId, j) =>
                   \E k \in DOMAIN StoredMatches(submissions, last.submissionId) :
                       StoredMatches(submissions, last.submissionId)[k] =
                           [submissionId |-> ObjectId(j), score |-> Scale]

\* a second student submitted the text "a a b" of the first
C22_Witness ==
    /\ LastStoredReport
    /\ \E j \in DOMAIN submissions :
           /\ SameNormalizedText(last.submissionId, j)
           /\ submissions[j].normalizedText = Some(<<"a", " ", "a", " ", "b">>)
           /\ submissions[j].contentHash = Some(Sha256Hex(<<"a", " ", "a", " ", "b">>))
    /\ LastScore = Scale

(***************************************************************************)
(* Properties of extractSubmissionText (checked under SpecExtract).        *)
(***************************************************************************)
CalledFiles == callArgs[1]
CalledText == callArgs[2]

\* the extensions whose files are read
SupportedExtensions == TEXT_EXTENSIONS \cup {ExtPdf, ExtDocx}

IsSupported(file) == toLowerCase(file.extname) \in SupportedExtensions

\* the reader of a supported file failed
ReadFailed(file) == IsSupported(file) /\ ~file.content.some

\* the file was read and is not empty
HasContent(file) == IsSupported(file) /\ file.content.some /\ file.content.val # <<>>

RECURSIVE ContentsUpTo(_, _)
\* the contents of the first n files that have any, in the order of the list
ContentsUpTo(files, n) ==
    IF n = 0 THEN <<>>
    ELSE ContentsUpTo(files, n - 1)
             \o (IF HasContent(files[n]) THEN <<files[n].content.val>> ELSE <<>>)

\* the literal text, when there is one, and then the contents
LiteralThenContents(files, providedText) ==
    (IF providedText.some /\ providedText.val # <<>> THEN <<providedText.val>> ELSE <<>>)
        \o ContentsUpTo(files, Len(files))

\* C23: the text returned by extractSubmissionText is the literal text, when
\* one is provided, followed by the content of every readable supported
\* file in the order of the file list, joined by newlines (and trimmed).
C23_LiteralFirstThenFilesInOrder ==
    callPc = "returned" =>
        LET combined == trim(JoinNewline(LiteralThenContents(CalledFiles, CalledText)))
        IN callRet = IF combined = <<>> THEN None ELSE Some(combined)

\* the literal text "t" came first, then "q" of the first file and "p" of
\* the second
C23_Witness ==
    /\ callPc = "returned"
    /\ CalledText = Some(<<"t">>)
    /\ Len(CalledFiles) = 2
    /\ CalledFiles[1].content = Some(<<"q">>)
    /\ CalledFiles[2] = [extname |-> ExtTxt, content |-> Some(<<"p">>)]
    /\ callRet = Some(<<"t", "\n", "q", "\n", "p">>)

\* the files of the list without those picked out by Drop
Without(files, Drop(_)) == SelectSeq(files, LAMBDA file : ~Drop(file))

\* C24: a file whose reader failed contributes nothing and stops nothing:
\* the call returns what it returns for the list without the failed files.
C24_FailedFileContributesNothing ==
    callPc = "returned" =>
        callRet = extractSubmissionText(Without(CalledFiles, ReadFailed), CalledText)

\* a corrupt PDF came first and the text file after it was still read
C24_Witness ==
    /\ callPc = "returned"
    /\ CalledText = None
    /\ CalledFiles = <<[extname |-> ExtPdf, content |-> None],
                       [extname |-> ExtTxt, content |-> Some(<<"p">>)]>>
    /\ callRet = Some(<<"p">>)

\* C25: a file of an unsupported extension contributes nothing, and the call
\* returns absent exactly when the literal text and the extracted contents,
\* joined and trimmed, are empty: in particular for no files and no literal
\* text, and when every file is skipped or failed.
C25_AbsentIffNothingExtracted ==
    callPc = "returned" =>
        /\ callRet = extractSubmissionText(
                         Without(CalledFiles, LAMBDA file : ~IsSupported(file)), CalledText)
        /\ (callRet = None <=>
                trim(JoinNewline(LiteralThenContents(CalledFiles, CalledText))) = <<>>)
        /\ (callRet.some => callRet.val # <<>>)
        /\ ((~CalledText.some /\ \A i \in DOMAIN CalledFiles : ~HasContent(CalledFiles[i]))
                => callRet = None)

\* no literal text, one file of an extension that is not read and one whose
\* reader failed
C25_Witness ==
    /\ callPc = "returned"
    /\ CalledText = None
    /\ CalledFiles = <<[extname |-> ExtExe, content |-> Some(<<"p">>)],
                       [extname |-> ExtJson, content |-> None]>>
    /\ callRet = None

(***************************************************************************)
(* Properties of the stored reports (checked under Spec).                  *)
(***************************************************************************)
\* C26: after every completed submit and update, the report stored with
\* every submission has the maximum score of its matches as its score (0
\* without matches) and the bucket of that score as its category.
C26_StoredReportsKeepInvariant ==
    \A i \in DOMAIN submissions :
        /\ submissions[i].similarityReport.score = MaxScore(StoredMatches(submissions, i))
        /\ submissions[i].similarityReport.category =
               bucketScore(submissions[i].similarityReport.score)

(***************************************************************************)
(* Properties of racing submit requests (checked under SpecConcurrent).    *)
(***************************************************************************)
\* the request r is refused by the unique index in this step
LosesRace(r) ==
    /\ inflight[r].pc = "reported"
    /\ inflight'[r].pc = "done"
    /\ inflight'[r].status = 500

\* the request r was refused by the unique index
LostRace(r) ==
    /\ inflight[r].pc = "done"
    /\ inflight[r].status = 500
    /\ inflight[r].submissionId = 0

OnePerStudent ==
    \A i, j \in DOMAIN submissions :
        (/\ submissions[i].assignmentId = submissions[j].assignmentId
         /\ submissions[i].studentId = submissions[j].studentId) => i = j

LoserChangesNothing ==
    \A r \in DOMAIN inflight :
        /\ LosesRace(r) => UNCHANGED <<submissions, notifications>>
        /\ LostRace(r) => /\ inflight'[r] = inflight[r]
                          /\ inflight[r].peers = <<>>

\* C27: however the steps of concurrent submit requests interleave, the
\* collection never holds two submissions of one student for one assignment,
\* and the request that Submission.create refuses leaves every stored report
\* and the notifications as they were and takes no further step.
C27_OneSubmissionPerStudent ==
    []OnePerStudent /\ [][LoserChangesNothing]_vars

\* two requests of one student both passed Submission.findOne; one stored its
\* document and was answered 201, the other was refused
C27_Witness ==
    \E r, w \in DOMAIN inflight :
        /\ r # w
        /\ inflight[r].student = inflight[w].student
        /\ LostRace(r)
        /\ inflight[r].report.matches # <<>>
        /\ inflight[w].pc = "done"
        /\ inflight[w].status = 201
        /\ submissions[inflight[w].submissionId].studentId = inflight[w].student

\* the request r has been answered with an error status
AnsweredError(r) ==
    /\ inflight[r].pc = "done"
    /\ inflight[r].status \in {400, 404, 500}

\* C28: a submit request answered 400, 404 or 500 has stored no submission
\* and has saved no peer's report.
C28_ErrorLeavesStoreUnchanged ==
    \A r \in DOMAIN inflight :
        AnsweredError(r) =>
            /\ inflight[r].submissionId = 0
            /\ \A k \in DOMAIN inflight[r].peers : inflight[r].peers[k].state # "saved"

(***************************************************************************)
(* Properties of the reports on long texts (checked under SpecLongTexts).  *)
(***************************************************************************)
\* C29: every entry of a returned report's matches holds a score above 0.
C29_NoMatchWithScoreZero ==
    Returned => \A k \in DOMAIN ret.report.matches : ret.report.matches[k].score > 0
====
